---- MODULE Spec2Model ----
(***************************************************************************)
(* Model of the constant-pool serializer of src/src/main.rs: the tagged    *)
(* Value/Object data, the binary write path (write_values_to_disk), the    *)
(* binary read path (load_values_from_disk) with its object pool, and the  *)
(* disassembly loop of Object::display.                                    *)
(*                                                                         *)
(* A run is the life of the file "constants": one process started with     *)
(* "s" builds a value list and writes it; the file may then be damaged     *)
(* outside the program; one process started with "l" reads it back and     *)
(* displays what it read.  A panic (unwrap on Err, unreachable!, an index  *)
(* out of bounds) ends the process: pc = "panic", err names the cause.     *)
(***************************************************************************)
EXTENDS Integers, Sequences, FiniteSets, TLC

VARIABLES
    pc,        \* position of the running process
    mode,      \* "s" or "l": the argument the running process was started with
    err,       \* "" or the cause of the panic
    values,    \* main's `values`: the Vec<Value> of the running process
    heap,      \* the Rc<Object> allocations of the running process, by allocation order
    pool,      \* main's `objs`: the ObjectPool, a sequence of references into heap
    file,      \* the bytes of the file on disk
    emitted,   \* the bytes handed to file.write so far by the "s" process, in call order
    written,   \* the value list write_values_to_disk was called with, objects by content
    wi,        \* index of the next file.write call of write_values_to_disk
    pos,       \* read cursor of the open file
    count,     \* constants_to_read
    tagreads,  \* number of type-tag bytes read by the loop of load_values_from_disk
    di,        \* index of the value being displayed
    ip,        \* the disassembly cursor
    out,       \* the lines printed so far
    cur        \* what print! has put on the current, unterminated line

vars == <<pc, mode, err, values, heap, pool, file, emitted, written, wi,
          pos, count, tagreads, di, ip, out, cur>>

(***************************************************************************)
(* Bounds of the model.                                                    *)
(***************************************************************************)
MaxValues == 2
MaxCodeLen == 4

(***************************************************************************)
(* Inputs.                                                                 *)
(***************************************************************************)
MinI32 == -2147483647 - 1

IntInputs == {100, -1, MinI32}
BoolInputs == {TRUE, FALSE}
\* "" and "é" (two UTF-8 bytes)
StringInputs == {<< >>, <<195, 169>>}
\* "f"
IdentifierInputs == {<<102>>}
ParamCountInputs == {1}
\* [ConstantByte, 3, Return] of main, and a body holding an undefined op
CodeInputs == {<<0, 3, 1>>, <<3>>}
\* bytes an outside writer may put into the file
TamperBytes == {1, 255}
\* bytes of the code bodies the disassembler is run on
CodeBytes == {0, 1, 3}

(***************************************************************************)
(* Fixed-width big-endian integers.  All arithmetic stays below 2^31.      *)
(***************************************************************************)
HugeSize == 2147483647

\* the four big-endian bytes of n, 0 <= n < 2^31
U32ToBe(n) ==
    <<(n \div 16777216) % 256, (n \div 65536) % 256, (n \div 256) % 256, n % 256>>

BeToU31(b) == ((b[1] * 256 + b[2]) * 256 + b[3]) * 256 + b[4]

\* usize::to_be_bytes on the 64-bit target, for n < 2^31
UsizeToBe(n) == <<0, 0, 0, 0>> \o U32ToBe(n)

\* usize::from_be_bytes; every value >= 2^31 - 1 is represented by HugeSize,
\* which exceeds the length of any file of the model
UsizeFromBe(b) ==
    IF b[1] # 0 \/ b[2] # 0 \/ b[3] # 0 \/ b[4] # 0 \/ b[5] >= 128
    THEN HugeSize
    ELSE BeToU31(SubSeq(b, 5, 8))

I32ToBe_LittleEndian(i) ==
    LET m == IF i >= 0 THEN i ELSE -(i + 1)
        u == U32ToBe(m)
        be == IF i >= 0 THEN u ELSE [k \in 1..4 |-> 255 - u[k]]
    IN  [k \in 1..4 |-> be[5 - k]]

\* i32::to_be_bytes: two's complement, most significant byte first
I32ToBe(i) ==
    LET m == IF i >= 0 THEN i ELSE -(i + 1)
        u == U32ToBe(m)
    IN  IF i >= 0 THEN u ELSE [k \in 1..4 |-> 255 - u[k]]

\* i32::from_be_bytes
I32FromBe(b) ==
    IF b[1] < 128
    THEN BeToU31(b)
    ELSE -BeToU31([k \in 1..4 |-> 255 - b[k]]) - 1

(***************************************************************************)
(* String::from_utf8: the well-formedness test of the standard library.    *)
(***************************************************************************)
IsCont(b, lo, hi) == b >= lo /\ b <= hi

RECURSIVE Utf8From(_, _)
Utf8From(b, i) ==
    IF i > Len(b) THEN TRUE
    ELSE LET c == b[i]
             has(n) == i + n <= Len(b)
         IN  IF c < 128 THEN Utf8From(b, i + 1)
             ELSE IF c >= 194 /\ c <= 223
             THEN has(1) /\ IsCont(b[i + 1], 128, 191) /\ Utf8From(b, i + 2)
             ELSE IF c >= 224 /\ c <= 239
             THEN /\ has(2)
                  /\ IsCont(b[i + 1], IF c = 224 THEN 160 ELSE 128,
                                      IF c = 237 THEN 159 ELSE 191)
                  /\ IsCont(b[i + 2], 128, 191)
                  /\ Utf8From(b, i + 3)
             ELSE IF c >= 240 /\ c <= 244
             THEN /\ has(3)
                  /\ IsCont(b[i + 1], IF c = 240 THEN 144 ELSE 128,
                                      IF c = 244 THEN 143 ELSE 191)
                  /\ IsCont(b[i + 2], 128, 191)
                  /\ IsCont(b[i + 3], 128, 191)
                  /\ Utf8From(b, i + 4)
             ELSE FALSE

IsValidUtf8(b) == Utf8From(b, 1)

(***************************************************************************)
(* Values and objects.  A Value::Object holds a reference (an index into   *)
(* heap): the Rc it shares with the pool.                                  *)
(***************************************************************************)
IntValue(i) == [kind |-> "Int", i |-> i]
BoolValue(b) == [kind |-> "Bool", b |-> b]
ObjectValue(r) == [kind |-> "Object", ref |-> r]

StringObject(s) == [kind |-> "String", contents |-> s]
FunctionObject(id, n, c) ==
    [kind |-> "Function", identifier |-> id, param_count |-> n, code |-> c]

\* a value with its object by content
Deep(v, h) == IF v.kind = "Object" THEN [kind |-> "Object", obj |-> h[v.ref]] ELSE v
DeepValues(vs, h) == [k \in 1..Len(vs) |-> Deep(vs[k], h)]

\* <Object as ConstantIO>::to_type_id
ObjectToTypeId(o) == IF o.kind = "String" THEN 2 ELSE 3

\* <Value as ConstantIO>::to_type_id
ValueToTypeId(v, h) ==
    CASE v.kind = "Int" -> 0
      [] v.kind = "Bool" -> 1
      [] OTHER -> ObjectToTypeId(h[v.ref])

(***************************************************************************)
(* The write path as the sequence of buffers handed to file.write.         *)
(***************************************************************************)
\* write_string: the length, then the bytes
WriteString(s) == <<UsizeToBe(Len(s)), s>>

\* Object::write
ObjectWrite(o) ==
    IF o.kind = "String"
    THEN WriteString(o.contents)
    ELSE WriteString(o.identifier)
         \o <<<<o.param_count>>, UsizeToBe(Len(o.code)), o.code>>

\* Value::write: the type tag, then the payload
ValueWrite(v, h) ==
    << <<ValueToTypeId(v, h)>> >>
    \o (CASE v.kind = "Int" -> <<I32ToBe(v.i)>>
          [] v.kind = "Bool" -> << <<IF v.b THEN 1 ELSE 0>> >>
          [] OTHER -> ObjectWrite(h[v.ref]))

RECURSIVE WriteAll(_, _, _)
WriteAll(vs, h, k) ==
    IF k > Len(vs) THEN << >> ELSE ValueWrite(vs[k], h) \o WriteAll(vs, h, k + 1)

\* write_values_to_disk: the count, then every value in order
WriteCalls(vs, h) == <<UsizeToBe(Len(vs))>> \o WriteAll(vs, h, 1)

RECURSIVE Flatten(_)
Flatten(bufs) == IF bufs = << >> THEN << >> ELSE Head(bufs) \o Flatten(Tail(bufs))

(***************************************************************************)
(* The read helpers.  Each takes the file and the cursor and returns what  *)
(* it read and the new cursor, or ok = FALSE where the code panics.        *)
(***************************************************************************)
\* a read that hands back what is left, zero-filled, instead of failing
ReadExact_ZeroFill(f, p, n) ==
    IF n <= Len(f) - p
    THEN [ok |-> TRUE, buf |-> SubSeq(f, p + 1, p + n), pos |-> p + n]
    ELSE IF n > 64
    THEN [ok |-> FALSE, buf |-> << >>, pos |-> p]
    ELSE [ok |-> TRUE,
          buf |-> [k \in 1..n |-> IF p + k <= Len(f) THEN f[p + k] ELSE 0],
          pos |-> Len(f)]

\* File::read_exact(&mut buffer) with a buffer of n bytes: Err(UnexpectedEof)
\* when fewer than n bytes are left
ReadExact(f, p, n) ==
    IF n <= Len(f) - p
    THEN [ok |-> TRUE, buf |-> SubSeq(f, p + 1, p + n), pos |-> p + n]
    ELSE [ok |-> FALSE, buf |-> << >>, pos |-> p]

ReadU8(f, p) ==
    LET r == ReadExact(f, p, 1)
    IN  [ok |-> r.ok, v |-> IF r.ok THEN r.buf[1] ELSE 0, pos |-> r.pos]

ReadI32(f, p) ==
    LET r == ReadExact(f, p, 4)
    IN  [ok |-> r.ok, v |-> IF r.ok THEN I32FromBe(r.buf) ELSE 0, pos |-> r.pos]

ReadUsize(f, p) ==
    LET r == ReadExact(f, p, 8)
    IN  [ok |-> r.ok, v |-> IF r.ok THEN UsizeFromBe(r.buf) ELSE 0, pos |-> r.pos]

\* read_bytes: the size, a zeroed buffer of that size, read_exact into it.
\* A size of HugeSize may already fail in the allocation of the buffer.
ReadBytes(f, p) ==
    LET s == ReadUsize(f, p)
    IN  IF ~s.ok
        THEN [ok |-> FALSE, errs |-> {"io"}, buf |-> << >>, pos |-> s.pos]
        ELSE LET r == ReadExact(f, s.pos, s.v)
             IN  IF r.ok
                 THEN [ok |-> TRUE, errs |-> {}, buf |-> r.buf, pos |-> r.pos]
                 ELSE [ok |-> FALSE,
                       errs |-> IF s.v = HugeSize THEN {"alloc", "io"} ELSE {"io"},
                       buf |-> << >>, pos |-> r.pos]

\* read_string: read_bytes, then String::from_utf8(..).unwrap()
ReadString(f, p) ==
    LET r == ReadBytes(f, p)
    IN  IF r.ok /\ ~IsValidUtf8(r.buf)
        THEN [ok |-> FALSE, errs |-> {"utf8"}, buf |-> << >>, pos |-> r.pos]
        ELSE r

Failed(errs, p) == [ok |-> FALSE, errs |-> errs, pos |-> p, isobj |-> FALSE, item |-> 0]
Scalar(v, p) == [ok |-> TRUE, errs |-> {}, pos |-> p, isobj |-> FALSE, item |-> v]
Allocated(o, p) == [ok |-> TRUE, errs |-> {}, pos |-> p, isobj |-> TRUE, item |-> o]

\* an unknown id taken for a string
ObjectRead_AnyIdIsString(f, p, byte_id) ==
    IF byte_id = 3
    THEN LET id == ReadString(f, p)
         IN  IF ~id.ok THEN Failed(id.errs, id.pos)
             ELSE LET n == ReadU8(f, id.pos)
                  IN  IF ~n.ok THEN Failed({"io"}, n.pos)
                      ELSE LET c == ReadBytes(f, n.pos)
                           IN  IF ~c.ok THEN Failed(c.errs, c.pos)
                               ELSE Allocated(FunctionObject(id.buf, n.v, c.buf), c.pos)
    ELSE LET s == ReadString(f, p)
         IN  IF s.ok THEN Allocated(StringObject(s.buf), s.pos)
             ELSE Failed(s.errs, s.pos)

\* <Object as ConstantIO>::read, up to the object it builds
ObjectRead(f, p, byte_id) ==
    CASE byte_id = 2 ->
           LET s == ReadString(f, p)
           IN  IF s.ok THEN Allocated(StringObject(s.buf), s.pos)
               ELSE Failed(s.errs, s.pos)
      [] byte_id = 3 ->
           LET id == ReadString(f, p)
           IN  IF ~id.ok THEN Failed(id.errs, id.pos)
               ELSE LET n == ReadU8(f, id.pos)
                    IN  IF ~n.ok THEN Failed({"io"}, n.pos)
                        ELSE LET c == ReadBytes(f, n.pos)
                             IN  IF ~c.ok THEN Failed(c.errs, c.pos)
                                 ELSE Allocated(FunctionObject(id.buf, n.v, c.buf), c.pos)
      [] OTHER -> Failed({"format"}, p)

\* <Value as ConstantIO>::read
ValueRead(f, p, byte_id) ==
    CASE byte_id = 0 ->
           LET r == ReadI32(f, p)
           IN  IF r.ok THEN Scalar(IntValue(r.v), r.pos) ELSE Failed({"io"}, r.pos)
      [] byte_id = 1 ->
           LET r == ReadU8(f, p)
           IN  IF r.ok THEN Scalar(BoolValue(r.v = 1), r.pos) ELSE Failed({"io"}, r.pos)
      [] OTHER -> ObjectRead(f, p, byte_id)

\* one value record: the type tag, then the value
RecordRead(f, p) ==
    LET t == ReadU8(f, p)
    IN  IF t.ok THEN ValueRead(f, t.pos, t.v) ELSE Failed({"io"}, t.pos)

(***************************************************************************)
(* The state after main has created its two empty vectors in an "s" run.   *)
(***************************************************************************)
Init ==
    /\ pc = "build" /\ mode = "s" /\ err = ""
    /\ values = << >> /\ heap = << >> /\ pool = << >>
    /\ file = << >> /\ emitted = << >> /\ written = << >>
    /\ wi = 0
    /\ pos = 0 /\ count = 0 /\ tagreads = 0
    /\ di = 0 /\ ip = 0 /\ out = << >> /\ cur = << >>

writerVars == <<file, emitted, written, wi>>
readerVars == <<pos, count, tagreads>>
displayVars == <<di, ip, out, cur>>

Panic(e) == pc' = "panic" /\ err' = e

(***************************************************************************)
(* Building the value list (main, lines 31-41, with any literals).         *)
(***************************************************************************)
CanBuild == pc = "build" /\ Len(values) < MaxValues

\* an object that is handed out without being registered in the pool
FromString_NoPush(str) ==
    /\ heap' = Append(heap, StringObject(str))
    /\ pool' = pool
    /\ values' = Append(values, ObjectValue(Len(heap) + 1))

\* Value::from_string, and the push of its result onto values
FromString(str) ==
    /\ heap' = Append(heap, StringObject(str))
    /\ pool' = Append(pool, Len(heap) + 1)
    /\ values' = Append(values, ObjectValue(Len(heap) + 1))

\* Value::from_function_literal, and the push of its result onto values
FromFunctionLiteral(id, param_count, code) ==
    /\ heap' = Append(heap, FunctionObject(id, param_count, code))
    /\ pool' = Append(pool, Len(heap) + 1)
    /\ values' = Append(values, ObjectValue(Len(heap) + 1))

PushInt ==
    /\ CanBuild
    /\ \E i \in IntInputs : values' = Append(values, IntValue(i))
    /\ UNCHANGED <<pc, mode, err, heap, pool, writerVars, readerVars, displayVars>>

PushBool ==
    /\ CanBuild
    /\ \E b \in BoolInputs : values' = Append(values, BoolValue(b))
    /\ UNCHANGED <<pc, mode, err, heap, pool, writerVars, readerVars, displayVars>>

PushString ==
    /\ CanBuild
    /\ \E s \in StringInputs : FromString(s)
    /\ UNCHANGED <<pc, mode, err, writerVars, readerVars, displayVars>>

PushFunction ==
    /\ CanBuild
    /\ \E id \in IdentifierInputs, n \in ParamCountInputs, c \in CodeInputs :
           FromFunctionLiteral(id, n, c)
    /\ UNCHANGED <<pc, mode, err, writerVars, readerVars, displayVars>>

(***************************************************************************)
(* write_values_to_disk, one file.write call per step.  File::write may    *)
(* accept the whole buffer, accept only a prefix of it (Ok(n), n below the *)
(* buffer's length), or fail (Err, on which unwrap panics).  The value of  *)
(* Ok(n) is dropped by the code.  A file takes at most one fault: a short   *)
(* write happens only while the file still holds all that was handed over. *)
(***************************************************************************)
Calls == WriteCalls(values, heap)

\* File::create truncates the file, then write_values_to_disk is entered
WriteStart ==
    /\ pc = "build"
    /\ pc' = "writing"
    /\ file' = << >> /\ emitted' = << >>
    /\ written' = DeepValues(values, heap)
    /\ wi' = 1
    /\ UNCHANGED <<mode, err, values, heap, pool, readerVars, displayVars>>

\* file.write(buf) returning Ok(n): n bytes reach the file
FileWrite(buf, n) ==
    /\ file' = file \o SubSeq(buf, 1, n)
    /\ emitted' = emitted \o buf
    /\ wi' = wi + 1

WriteOk ==
    /\ pc = "writing" /\ wi <= Len(Calls)
    /\ FileWrite(Calls[wi], Len(Calls[wi]))
    /\ UNCHANGED <<pc, mode, err, values, heap, pool, written, readerVars, displayVars>>

WriteShort ==
    /\ pc = "writing" /\ wi <= Len(Calls)
    /\ file = emitted
    /\ \E n \in 0..(Len(Calls[wi]) - 1) : FileWrite(Calls[wi], n)
    /\ UNCHANGED <<pc, mode, err, values, heap, pool, written, readerVars, displayVars>>

WriteErr ==
    /\ pc = "writing" /\ wi <= Len(Calls)
    /\ emitted' = emitted \o Calls[wi]
    /\ Panic("write")
    /\ UNCHANGED <<mode, values, heap, pool, file, written, wi, readerVars, displayVars>>

\* the loop is over: "{} constants written to file"
WriteDone ==
    /\ pc = "writing" /\ wi > Len(Calls)
    /\ pc' = "saved"
    /\ UNCHANGED <<mode, err, values, heap, pool, writerVars, readerVars, displayVars>>

(***************************************************************************)
(* Between the two runs the file may be changed from outside: cut short,   *)
(* one byte overwritten, or a byte appended, if no short write has already *)
(* damaged it.                                                             *)
(***************************************************************************)
CanTamper == pc = "saved" /\ file = emitted

rest == <<mode, err, values, heap, pool, emitted, written, wi, readerVars, displayVars>>

TamperTruncate ==
    /\ CanTamper
    /\ \E n \in 0..(Len(file) - 1) : file' = SubSeq(file, 1, n)
    /\ pc' = "damaged"
    /\ UNCHANGED rest

TamperReplace ==
    /\ CanTamper
    /\ \E k \in 1..Len(file), b \in TamperBytes :
           b # file[k] /\ file' = [file EXCEPT ![k] = b]
    /\ pc' = "damaged"
    /\ UNCHANGED rest

TamperAppend ==
    /\ CanTamper
    /\ \E b \in TamperBytes : file' = Append(file, b)
    /\ pc' = "damaged"
    /\ UNCHANGED rest

(***************************************************************************)
(* load_values_from_disk in a fresh process started with "l".              *)
(***************************************************************************)
\* the loop reads one record too many
MoreToRead_OffByOne == Len(values) <= count

\* for _ in 0..constants_to_read: values holds one entry per past iteration
MoreToRead == Len(values) < count

\* a new process after a completed "s" run: main opens the file;
\* read_usize; values.reserve, which may fail for a count of HugeSize
LoadStart ==
    /\ pc \in {"saved", "damaged"}
    /\ mode' = "l"
    /\ values' = << >> /\ heap' = << >> /\ pool' = << >>
    /\ tagreads' = 0
    /\ LET c == ReadUsize(file, 0)
       IN  IF ~c.ok
           THEN Panic("io") /\ pos' = c.pos /\ count' = 0
           ELSE /\ pos' = c.pos /\ count' = c.v
                /\ \/ pc' = "loading" /\ err' = ""
                   \/ c.v = HugeSize /\ Panic("alloc")
    /\ UNCHANGED <<writerVars, displayVars>>

\* one iteration: read_u8, Value::read, values.push; Object::read registers
\* the object it builds in the pool
ReadRecord ==
    /\ pc = "loading" /\ MoreToRead
    /\ LET r == RecordRead(file, pos)
       IN  /\ tagreads' = IF ReadU8(file, pos).ok THEN tagreads + 1 ELSE tagreads
           /\ pos' = r.pos
           /\ IF r.ok
              THEN /\ IF r.isobj
                      THEN /\ heap' = Append(heap, r.item)
                           /\ pool' = Append(pool, Len(heap) + 1)
                           /\ values' = Append(values, ObjectValue(Len(heap) + 1))
                      ELSE /\ values' = Append(values, r.item)
                           /\ UNCHANGED <<heap, pool>>
                   /\ UNCHANGED <<pc, err>>
              ELSE /\ \E e \in r.errs : Panic(e)
                   /\ UNCHANGED <<values, heap, pool>>
    /\ UNCHANGED <<mode, count, writerVars, displayVars>>

\* the loop is over: "{} constants read from file"; main goes on to display
LoadDone ==
    /\ pc = "loading" /\ ~MoreToRead
    /\ pc' = "display" /\ di' = 1
    /\ UNCHANGED <<mode, err, values, heap, pool, writerVars, readerVars, ip, out, cur>>

(***************************************************************************)
(* Display: for value in values { value.display() }.                       *)
(***************************************************************************)
\* {ip:04}: four decimal digits, zero-padded (ip < 10000)
Pad4(n) == <<(n \div 1000) % 10, (n \div 100) % 10, (n \div 10) % 10, n % 10>>

\* the code body being disassembled
Code == heap[values[di].ref].code

\* the operand is taken from the op byte's own place
ByteInstruction_OperandAtIp(label, code) ==
    IF ip + 1 < Len(code)
    THEN /\ out' = Append(out, [off |-> cur, label |-> label, operand |-> <<code[ip + 1]>>])
         /\ cur' = << >>
         /\ ip' = ip + 2
         /\ pc' = "disasm" /\ err' = err
    ELSE /\ Panic("index")
         /\ UNCHANGED <<ip, out, cur>>

\* the operand is read without a bounds check
ByteInstruction_Unchecked(label, code) ==
    /\ out' = Append(out, [off |-> cur, label |-> label,
                           operand |-> <<IF ip + 1 < Len(code) THEN code[ip + 2] ELSE 0>>])
    /\ cur' = << >>
    /\ ip' = ip + 2
    /\ pc' = "disasm" /\ err' = err

\* byte_instruction: code[*ip + 1] is a checked index, which panics when
\* *ip + 1 is not below code.len(), before println! prints anything
ByteInstruction(label, code) ==
    IF ip + 1 < Len(code)
    THEN /\ out' = Append(out, [off |-> cur, label |-> label, operand |-> <<code[ip + 2]>>])
         /\ cur' = << >>
         /\ ip' = ip + 2
         /\ pc' = "disasm" /\ err' = err
    ELSE /\ Panic("index")
         /\ UNCHANGED <<ip, out, cur>>

\* the cursor is left where it was
SimpleInstruction_NoAdvance(label) ==
    /\ out' = Append(out, [off |-> cur, label |-> label, operand |-> << >>])
    /\ cur' = << >>
    /\ ip' = ip
    /\ pc' = "disasm" /\ err' = err

\* simple_instruction
SimpleInstruction(label) ==
    /\ out' = Append(out, [off |-> cur, label |-> label, operand |-> << >>])
    /\ cur' = << >>
    /\ ip' = ip + 1
    /\ pc' = "disasm" /\ err' = err

\* Value::display / Object::display up to the disassembly loop
DisplayValue ==
    /\ pc = "display" /\ di <= Len(values)
    /\ LET v == values[di]
       IN  IF v.kind = "Object" /\ heap[v.ref].kind = "Function"
           THEN /\ out' = Append(out, [label |-> "func",
                                       identifier |-> heap[v.ref].identifier,
                                       param_count |-> heap[v.ref].param_count])
                /\ ip' = 0
                /\ pc' = "disasm"
                /\ di' = di
           ELSE /\ out' = Append(out, Deep(v, heap))
                /\ di' = di + 1
                /\ UNCHANGED <<pc, ip>>
    /\ UNCHANGED <<mode, err, values, heap, pool, writerVars, readerVars, cur>>

fixed == <<mode, values, heap, pool, writerVars, readerVars, di>>

\* while ip < code.len(): the byte at ip is transmuted to a ByteCode and
\* print!("{ip:04} ") puts the offset on the line
DisasmFetch ==
    /\ pc = "disasm" /\ ip < Len(Code)
    /\ cur' = Pad4(ip)
    /\ pc' = "match"
    /\ UNCHANGED <<err, ip, out, fixed>>

\* match op: ByteCode::ConstantByte, discriminant 0
DisasmConstantByte ==
    /\ pc = "match" /\ Code[ip + 1] = 0
    /\ ByteInstruction("CONSTANT_BYTE", Code)
    /\ UNCHANGED fixed

\* match op: ByteCode::Return, discriminant 1
DisasmReturn ==
    /\ pc = "match" /\ Code[ip + 1] = 1
    /\ SimpleInstruction("RETURN")
    /\ UNCHANGED fixed

\* match op on a ByteCode transmuted from a byte that is no discriminant of
\* the enum: undefined behaviour.  The compiled match may take either arm,
\* or trap.
DisasmUndefined ==
    /\ pc = "match" /\ Code[ip + 1] \notin {0, 1}
    /\ \/ ByteInstruction("CONSTANT_BYTE", Code)
       \/ SimpleInstruction("RETURN")
       \/ Panic("trap") /\ UNCHANGED <<ip, out, cur>>
    /\ UNCHANGED fixed

\* the loop condition fails: the next value is displayed
DisasmEnd ==
    /\ pc = "disasm" /\ ip >= Len(Code)
    /\ pc' = "display" /\ di' = di + 1
    /\ UNCHANGED <<mode, err, values, heap, pool, writerVars, readerVars, ip, out, cur>>

\* every value has been displayed: main returns
DisplayEnd ==
    /\ pc = "display" /\ di > Len(values)
    /\ pc' = "exit"
    /\ UNCHANGED <<mode, err, values, heap, pool, writerVars, readerVars, displayVars>>

(***************************************************************************)
(* Specifications.                                                         *)
(***************************************************************************)
Disasm ==
    \/ DisplayValue \/ DisasmFetch \/ DisasmConstantByte \/ DisasmReturn
    \/ DisasmUndefined \/ DisasmEnd \/ DisplayEnd

Next ==
    \/ PushInt \/ PushBool \/ PushString \/ PushFunction
    \/ WriteStart \/ WriteOk \/ WriteShort \/ WriteErr \/ WriteDone
    \/ TamperTruncate \/ TamperReplace \/ TamperAppend
    \/ LoadStart \/ ReadRecord \/ LoadDone
    \/ DisplayValue \/ DisasmFetch \/ DisasmConstantByte \/ DisasmReturn
    \/ DisasmUndefined \/ DisasmEnd \/ DisplayEnd

Spec == Init /\ [][Next]_vars

\* every code body of up to MaxCodeLen bytes over CodeBytes
CodeBodies == UNION {[1..n -> CodeBytes] : n \in 0..MaxCodeLen}

\* the state after an "l" run has loaded a file holding one function, whose
\* code body the read path copies unchecked
DisasmInit ==
    \E c \in CodeBodies :
        LET f == FunctionObject(<<102>>, 1, c)
            bytes == Flatten(WriteCalls(<<ObjectValue(1)>>, <<f>>))
        IN  /\ pc = "display" /\ mode = "l" /\ err = ""
            /\ values = <<ObjectValue(1)>> /\ heap = <<f>> /\ pool = <<1>>
            /\ file = bytes /\ emitted = bytes
            /\ written = DeepValues(<<ObjectValue(1)>>, <<f>>)
            /\ wi = Len(WriteCalls(<<ObjectValue(1)>>, <<f>>)) + 1
            /\ pos = Len(bytes) /\ count = 1 /\ tagreads = 1
            /\ di = 1 /\ ip = 0 /\ out = << >> /\ cur = << >>

SpecDisasm == DisasmInit /\ [][Disasm]_vars

\* display runs to completion on the calling thread
FairDisasm == SpecDisasm /\ WF_vars(Disasm)

(***************************************************************************)
(* Notions the properties are stated with.                                 *)
(***************************************************************************)
\* load_values_from_disk has returned
LoadFinished ==
    /\ mode = "l"
    /\ \/ pc \in {"display", "disasm", "match", "exit"}
       \/ pc = "panic" /\ err \in {"index", "trap"}

\* load_values_from_disk has panicked
LoadFailed == mode = "l" /\ pc = "panic" /\ err \in {"io", "alloc", "utf8", "format"}

IsPrefix(s, t) == Len(s) <= Len(t) /\ s = SubSeq(t, 1, Len(s))

\* the number of bytes of the record of a decoded value
RecordLen(v, h) ==
    CASE v.kind = "Int" -> 1 + 4
      [] v.kind = "Bool" -> 1 + 1
      [] h[v.ref].kind = "String" -> 1 + 8 + Len(h[v.ref].contents)
      [] OTHER -> 1 + 8 + Len(h[v.ref].identifier) + 1 + 8 + Len(h[v.ref].code)

RECURSIVE RecordsLen(_, _, _)
RecordsLen(vs, h, k) ==
    IF k > Len(vs) THEN 0 ELSE RecordLen(vs[k], h) + RecordsLen(vs, h, k + 1)

\* the number of value records that fill f from p to its end exactly
\* (-1: f does not end at the end of a record)
RECURSIVE RecordsIn(_, _)
RecordsIn(f, p) ==
    IF p = Len(f) THEN 0
    ELSE LET r == RecordRead(f, p)
         IN  IF ~r.ok THEN -1
             ELSE LET n == RecordsIn(f, r.pos) IN IF n < 0 THEN -1 ELSE n + 1

\* a code body that is a concatenation of Return and ConstantByte-operand pairs
RECURSIVE WellFormedFrom(_, _)
WellFormedFrom(c, i) ==
    \/ i = Len(c)
    \/ i < Len(c) /\ c[i + 1] = 1 /\ WellFormedFrom(c, i + 1)
    \/ i + 1 < Len(c) /\ c[i + 1] = 0 /\ WellFormedFrom(c, i + 2)

WellFormed(c) == WellFormedFrom(c, 0)

\* the disassembly loop is at work on Code
Disassembling == pc \in {"disasm", "match"}

\* the lines of the instructions of a well-formed code body from offset i
RECURSIVE Listing(_, _)
Listing(c, i) ==
    IF i >= Len(c) THEN << >>
    ELSE IF c[i + 1] = 0
    THEN <<[off |-> Pad4(i), label |-> "CONSTANT_BYTE", operand |-> <<c[i + 2]>>]>>
         \o Listing(c, i + 2)
    ELSE <<[off |-> Pad4(i), label |-> "RETURN", operand |-> << >>]>>
         \o Listing(c, i + 1)

\* the offset a printed line carries
OffsetOf(line) ==
    line.off[1] * 1000 + line.off[2] * 100 + line.off[3] * 10 + line.off[4]

(***************************************************************************)
(* Properties of the codec.                                                *)
(***************************************************************************)
\* C1: round trip.  When the file the "l" run reads holds exactly the bytes
\* write_values_to_disk produced (the bytes it handed to file.write, in
\* order), the read does not fail, and once it has returned, the value list
\* equals the written list element by element and in order: scalars by
\* value, strings by text, functions by identifier, param_count and code.
C1_RoundTrip ==
    (mode = "l" /\ file = emitted) =>
        /\ ~LoadFailed
        /\ LoadFinished => DeepValues(values, heap) = written

\* a round trip of a negative Int followed by a function has completed
C1_Witness ==
    /\ LoadFinished /\ file = emitted /\ pc = "exit"
    /\ Len(values) = 2
    /\ values[1] = IntValue(-1)
    /\ values[2].kind = "Object" /\ heap[values[2].ref].kind = "Function"

\* C2: count fidelity.  The count write_values_to_disk emits first equals
\* the number of value records that follow it in the emitted bytes; the
\* reader never reads more type tags nor appends more values than the count
\* field of its file says, and when it returns it has read exactly that
\* many tags and values and its cursor stands at the end of the last of its
\* records, whatever follows.
C2_CountFidelity ==
    /\ pc = "saved" =>
           /\ Len(emitted) >= 8
           /\ UsizeFromBe(SubSeq(emitted, 1, 8)) = RecordsIn(emitted, 8)
           /\ RecordsIn(emitted, 8) = Len(written)
    /\ (mode = "l" /\ pc # "panic") =>
           /\ count = UsizeFromBe(SubSeq(file, 1, 8))
           /\ tagreads <= count /\ Len(values) <= count
           /\ tagreads = Len(values)
           /\ pos = 8 + RecordsLen(values, heap, 1)
    /\ (mode = "l" /\ pc = "panic") => tagreads <= count /\ Len(values) <= count
    /\ LoadFinished => Len(values) = count /\ tagreads = count

\* a read of two records has returned and left a trailing byte unread
C2_Witness ==
    /\ LoadFinished /\ count = 2 /\ Len(values) = 2
    /\ pos < Len(file)

\* C3 (state part): every object a Value::Object refers to is in the pool
\* exactly once, and the pool lists the objects in the order of their
\* creation, one entry per object created.
PoolInv ==
    /\ \A k \in 1..Len(values) :
           values[k].kind = "Object" =>
               Cardinality({j \in 1..Len(pool) : pool[j] = values[k].ref}) = 1
    /\ Len(pool) = Len(heap)
    /\ \A j \in 1..Len(pool) : pool[j] = j

\* C3 (step part): within one process the pool only grows at its end
PoolAppendOnly == mode' = mode => IsPrefix(pool, pool')

\* C3: pool invariant.  In every state of a session the pool holds every
\* object referenced by a Value::Object exactly once, in creation order,
\* and every step of a session leaves the earlier pool a prefix of the
\* later one.
C3_PoolInvariant == [](PoolInv) /\ [][PoolAppendOnly]_vars

\* a read has decoded a string and a function, both in the pool
C3_Witness ==
    /\ LoadFinished /\ Len(pool) = 2 /\ Len(values) = 2
    /\ heap[pool[1]].kind = "String" /\ heap[pool[2]].kind = "Function"
    /\ values[1] = ObjectValue(1) /\ values[2] = ObjectValue(2)

\* the read loop is about to read a type tag outside {0,1,2,3}
AtUnknownTag ==
    /\ pc = "loading" /\ MoreToRead
    /\ pos < Len(file) /\ file[pos + 1] \notin {0, 1, 2, 3}

\* C4: unknown type tag.  Reading a tag byte outside {0,1,2,3} aborts the
\* read at that record with a format error: only the tag byte is consumed,
\* no value and no pool entry is added, and nothing happens after the
\* panic, so the read never completes.
C4_UnknownTag ==
    /\ [][AtUnknownTag =>
            /\ pc' = "panic" /\ err' = "format"
            /\ pos' = pos + 1
            /\ values' = values /\ pool' = pool /\ heap' = heap]_vars
    /\ [][pc # "panic"]_vars

\* the second record of a file had an unknown tag
C4_Witness ==
    /\ mode = "l" /\ pc = "panic" /\ err = "format"
    /\ Len(values) = 1 /\ count = 2
    /\ file[pos] \notin {0, 1, 2, 3}

\* C5: write failure.  write_values_to_disk completes (pc = "saved") only
\* when the file has accepted every byte handed to it.
C5_WriteAllOrFail == pc = "saved" => file = emitted

\* C6: truncated input.  Every value the reader holds is backed by bytes of
\* its file (the records of its values end at or before the end of the
\* file, so none was built from a short read), a returned list has the
\* declared length, and a file that is a proper prefix of a complete
\* encoding is never read successfully: the read ends in an I/O panic.
C6_TruncatedInput ==
    /\ mode = "l" => 8 + RecordsLen(values, heap, 1) <= Len(file) \/ Len(values) = 0
    /\ (mode = "l" /\ pc # "panic") => pos <= Len(file)
    /\ LoadFinished => Len(file) >= 8 /\ Len(values) = UsizeFromBe(SubSeq(file, 1, 8))
    /\ (mode = "l" /\ Len(file) < Len(emitted) /\ IsPrefix(file, emitted)) =>
           /\ ~LoadFinished
           /\ pc = "panic" => err = "io"

\* a file cut inside its second record ended the read in an I/O panic
C6_Witness ==
    /\ mode = "l" /\ pc = "panic" /\ err = "io"
    /\ Len(values) = 1 /\ count = 2
    /\ Len(file) < Len(emitted) /\ IsPrefix(file, emitted)
    /\ pos < Len(file)

(***************************************************************************)
(* Properties of the disassembly loop.                                     *)
(***************************************************************************)
\* C7 (steps): on a well-formed code body every instruction moves the
\* cursor forward, by 2 for ConstantByte and by 1 for Return, and the loop
\* is left only with the cursor at code.len()
CursorStep ==
    (Disassembling /\ WellFormed(Code)) =>
        /\ pc = "match" =>
               /\ pc' = "disasm"
               /\ ip' = ip + (IF Code[ip + 1] = 0 THEN 2 ELSE 1)
               /\ ip' > ip
        /\ pc = "disasm" => ip' = ip
        /\ pc' = "display" => ip = Len(Code)
        /\ pc' # "panic"
        /\ heap' = heap /\ values' = values

\* C7: disassembler cursor.  For a well-formed code body the cursor stays
\* within 0..code.len(), grows with every instruction by the size of that
\* instruction, the code is never changed, no error is raised, and the loop
\* ends, with the cursor at code.len().
C7_Cursor ==
    /\ []((Disassembling /\ WellFormed(Code)) => (0 <= ip /\ ip <= Len(Code)))
    /\ [][CursorStep]_vars
    /\ (Disassembling /\ WellFormed(Code)) ~> (pc = "exit" /\ ip = Len(heap[1].code))

\* the loop has run over [ConstantByte, 1, Return, Return] and ended at 4
C7_Witness ==
    /\ pc = "display" /\ di = 2 /\ ip = 4
    /\ heap[1].code = <<0, 1, 1, 1>> /\ err = ""

\* C8: disassembly output.  While a well-formed code body is disassembled
\* the lines printed after the header are a prefix of its listing (one line
\* per instruction, in order, with the offset of the op byte, the mnemonic,
\* and for ConstantByte the byte after the op byte, which is never taken
\* for an op), and once the loop has ended they are the whole listing.
\* [ConstantByte, 3, Return] gives (0000, CONSTANT_BYTE, 3), (0002, RETURN)
\* and ends with the cursor at 3.
C8_Listing ==
    /\ (Disassembling /\ WellFormed(Code)) => IsPrefix(Tail(out), Listing(Code, 0))
    /\ (pc \in {"display", "exit"} /\ di = 2 /\ WellFormed(heap[1].code)) =>
           Tail(out) = Listing(heap[1].code, 0)
    /\ (pc \in {"display", "exit"} /\ di = 2 /\ heap[1].code = <<0, 3, 1>>) =>
           /\ Tail(out) = <<[off |-> <<0, 0, 0, 0>>, label |-> "CONSTANT_BYTE",
                             operand |-> <<3>>],
                            [off |-> <<0, 0, 0, 2>>, label |-> "RETURN",
                             operand |-> << >>]>>
           /\ ip = 3

\* [ConstantByte, 3, Return] has been disassembled into its two lines
C8_Witness ==
    /\ pc = "exit" /\ heap[1].code = <<0, 3, 1>>
    /\ Len(out) = 3 /\ out[2].operand = <<3>> /\ out[3].label = "RETURN"

\* C9: undefined instruction.  When the byte at the cursor is neither 0 nor
\* 1 the loop faults at that offset: no arm of the match runs, no mnemonic
\* line is printed and the cursor stays.
C9_UndefinedFaults ==
    [][(pc = "match" /\ Code[ip + 1] \notin {0, 1}) =>
           (pc' = "panic" /\ ip' = ip /\ out' = out)]_vars

\* the byte at the cursor is a ConstantByte op with no byte after it
AtTruncated == pc = "match" /\ Code[ip + 1] = 0 /\ ip + 1 >= Len(Code)

\* C10: truncated instruction stream.  A ConstantByte op at the last byte
\* of the code ends the disassembly in a panic, with no line printed for
\* it and the cursor left on it; nothing runs after the panic; every
\* operand printed was read from an index below code.len(); and the cursor
\* never exceeds code.len().
C10_Truncated ==
    /\ [][AtTruncated =>
            (pc' = "panic" /\ err' = "index" /\ out' = out /\ ip' = ip)]_vars
    /\ [][pc # "panic"]_vars
    /\ [](ip <= Len(heap[1].code))
    /\ [](\A k \in 2..Len(out) :
              out[k].label = "CONSTANT_BYTE" =>
                  /\ OffsetOf(out[k]) + 1 < Len(heap[1].code)
                  /\ out[k].operand = <<heap[1].code[OffsetOf(out[k]) + 2]>>)

\* [Return, ConstantByte] has ended in the index panic, the offset of the
\* ConstantByte on the line and nothing after it
C10_Witness ==
    /\ pc = "panic" /\ err = "index" /\ heap[1].code = <<1, 0>>
    /\ ip = 1 /\ Len(out) = 2 /\ cur = <<0, 0, 0, 1>>

====
